---------------------------- MODULE Spec2Model ----------------------------
(***************************************************************************)
(* A model of the disruption harness of openshift/origin:                  *)
(*   test/extended/util/disruption/disruption.go   ExpectNoDisruption,     *)
(*       Run, runChaosmonkey, chaosMonkeyAdapter.Test, finalizeTest        *)
(*   test/e2e/upgrade/service/service.go           UpgradeTest.Test,       *)
(*       startEndpointMonitoring and its two probe closures                *)
(* The Monitor and the Sampler (pkg/monitor) are not among the source      *)
(* files; their definitions follow the specification's sections 4.1, 4.2   *)
(* and 5 and are marked so where they are defined.                         *)
(*                                                                         *)
(* Durations are in milliseconds in the part on ExpectNoDisruption and in  *)
(* whole seconds in the part on UpgradeTest.Test.                          *)
(***************************************************************************)
EXTENDS Integers, Sequences, FiniteSets, TLC

(***************************************************************************)
(* Part 1.  ExpectNoDisruption (disruption.go:311-350)                     *)
(***************************************************************************)

VARIABLES
    e_pc,          \* "call": before the call, "done": after ExpectNoDisruption
    e_events,      \* the monitorapi.Intervals handed to the call
    e_total,       \* total, in ms
    e_tolerate,    \* tolerate, in hundredths (0.02 is 2)
    e_before,      \* f.TestSummaries before the call
    e_summaries,   \* f.TestSummaries
    e_panic        \* the panic the call ended with, "none" when it returned

endVars == <<e_pc, e_events, e_total, e_tolerate, e_before, e_summaries, e_panic>>

VARIABLES
    h_main,        \* Run's goroutine: "wait", "fn", "stop", "end"
    h_pc,          \* per registered test: "start", "test", "done"
    TestSummaries, \* per test, its framework's TestSummaries
    cases,         \* testSuite.TestCases
    raised,        \* per test, the panic its body ended with ("none": returned)
    recovered,     \* per test, what recover() returned in finalizeTest
    ready,         \* per registered test, how often sem.Ready was signalled
    trace,         \* per registered test, the calls made so far, in order
    files,         \* the files written so far
    ReportDir,     \* whether framework.TestContext.ReportDir is set
    ginkgoFailed   \* whether ginkgo has recorded a failure of the running spec

harnessVars == <<h_main, h_pc, TestSummaries, cases, raised, recovered, ready,
                 trace, files, ReportDir, ginkgoFailed>>

VARIABLES
    t_pc,          \* UpgradeTest.Test: "entry", "waiting", "settling",
                   \* "cancelled", "returned", "panicked"
    unsupportedPlatform, \* t.unsupportedPlatform, as Setup left it
    now,           \* the clock, in seconds since Test was entered
    doneClosed,    \* whether the done channel is closed
    doneAt,        \* when Test read done (line 159) and began to sleep
    startTime,     \* start (line 155), -1 before
    endTime,       \* end (line 163), -1 before
    sampling,      \* whether m.StartSampling has been called
    cancelled,     \* whether ctx is cancelled
    s_pc,          \* per sampler: "none", "idle", "probing", "exited"
    isUp,          \* per sampler, the result of its last poll (previous)
    due,           \* per sampler, whether its ticker has fired since its last poll
    age,           \* per sampler, the seconds its probe has been in flight
    polls,         \* per sampler, what its polls saw and returned (counters)
    log,           \* the Monitor's log of conditions
    snapshots,     \* the results of the calls of m.Intervals, in order
    evaluations    \* the calls of ExpectNoDisruption Test has made, in order

monVars == <<t_pc, unsupportedPlatform, now, doneClosed, doneAt, startTime,
             endTime, sampling, cancelled, s_pc, isUp, due, age, polls, log,
             snapshots, evaluations>>

VARIABLES
    r_pc,          \* "call", "recorded" (RecordJUnit or RecordJUnitResult has
                   \* returned), "finalized" (finalizeTest has run)
    r_in,          \* the call: the function called, its name argument, the
                   \* error fn returns, the failure string, f.TestSummaries
    r_summaries,   \* f.TestSummaries
    r_calls,       \* how often fn has been invoked
    r_returned,    \* the error RecordJUnit returned
    r_cases        \* the suite's TestCases

recVars == <<r_pc, r_in, r_summaries, r_calls, r_returned, r_cases>>

VARIABLES
    p_pc,          \* TestReachableHTTPWithMinSuccessCount: "polling",
                   \* "returned", "failed" (ExpectNoError has failed the test)
    successCount,  \* its argument
    consecutiveSuccessCnt, \* its counter
    p_fit,         \* the polls that fit in before the timeout
    p_results      \* whether each poll so far was a success, in order

pollVars == <<p_pc, successCount, consecutiveSuccessCnt, p_fit, p_results>>

VARIABLES
    q_previous,    \* per closure, the next it returned last (the previous of
                   \* its next call)
    q_before,      \* per closure, the previous its last call was handed
    q_resp,        \* per closure, what the GET of its last call gave
    q_condition,   \* per closure, the condition its last call returned
    q_calls        \* the calls of the closures so far

probeVars == <<q_previous, q_before, q_resp, q_condition, q_calls>>

VARIABLES
    l_pc,          \* "name", "built" (a constructor has returned), "parsed"
                   \* (the three parsers have returned)
    l_kind,        \* the constructor called: "e2e-test", "node",
                   \* "clusteroperator"
    l_name,        \* its argument, a string as the sequence of its characters
    l_locator,     \* the locator it returned
    l_parsed       \* per parser, the name and the bool it returned for it

locVars == <<l_pc, l_kind, l_name, l_locator, l_parsed>>

vars == <<endVars, harnessVars, monVars, recVars, pollVars, probeVars, locVars>>

\* time.Second, in the unit of Part 1 (ms)
Second == 1000

\* tolerate is a fraction; the model holds it in hundredths (the code prints
\* tolerate*100 as a percentage)
Percent == 100

\* the longest interval set handed to one call
MaxIntervals == 3

\* interval lengths the calls are tried on (ms): three sub-second ones, the
\* floor itself, 5 s, 12 s (2% of 600 s exactly) and 20 s
IntervalLengths == {300, 500, 900, 1000, 5000, 12000, 20000}

IntervalPool == { [from |-> 0, to |-> l] : l \in IntervalLengths }

Totals == {60 * Second, 600 * Second}

Tolerances == {0, 2, 10, Percent}

\* summary kinds of disruption.go:38-67; an additionalTest carries its name
\* and whether its Failure string is set
FlakeSummary == [kind |-> "Flake"]
EventsSummary(ev) == [kind |-> "AdditionalEvents", events |-> ev]

\* the sum of the interval lengths, whatever they are
RECURSIVE DurationNoFloor(_, _)
DurationNoFloor(events, floor) ==
    IF events = <<>> THEN 0
    ELSE (Head(events).to - Head(events).from)
            + DurationNoFloor(Tail(events), floor)

\* Intervals.Duration(0, 1*time.Second): the sum of the interval lengths, an
\* interval below the floor counting as zero (specification, section 4.3)
RECURSIVE Duration(_, _)
Duration(events, floor) ==
    IF events = <<>> THEN 0
    ELSE LET d == Head(events).to - Head(events).from
         IN  (IF d < floor THEN 0 ELSE d) + Duration(Tail(events), floor)

\* the intervals recorded in place of the summaries there are
FrameworkEventIntervalsReplacing(summaries, events) ==
    <<EventsSummary(events)>>

\* FrameworkEventIntervals, disruption.go:335-337
FrameworkEventIntervals(summaries, events) ==
    Append(summaries, EventsSummary(events))

\* FrameworkFlakef, disruption.go:329-332
FrameworkFlakef(summaries) == Append(summaries, FlakeSummary)

\* ExpectNoDisruption with the comparison of line 318 made inclusive
ExpectNoDisruptionInclusive(summaries, tolerate, total, events) ==
    LET s1       == FrameworkEventIntervals(summaries, events)
        duration == Duration(events, 1 * Second)
    IN  IF duration * Percent >= tolerate * total
        THEN [summaries |-> s1, panic |-> "FailurePanic"]
        ELSE IF duration > 0
        THEN [summaries |-> FrameworkFlakef(s1), panic |-> "none"]
        ELSE [summaries |-> s1, panic |-> "none"]

\* ExpectNoDisruption, disruption.go:314-326.  percent > tolerate is
\* duration/total > tolerate/100, compared exactly as duration*100 >
\* tolerate*total.  framework.Failf panics with a ginkgowrapper.FailurePanic.
ExpectNoDisruption(summaries, tolerate, total, events) ==
    LET s1       == FrameworkEventIntervals(summaries, events)
        duration == Duration(events, 1 * Second)
    IN  IF duration * Percent > tolerate * total
        THEN [summaries |-> s1, panic |-> "FailurePanic"]
        ELSE IF duration > 0
        THEN [summaries |-> FrameworkFlakef(s1), panic |-> "none"]
        ELSE [summaries |-> s1, panic |-> "none"]

\* hasFrameworkFlake, disruption.go:341-350
hasFrameworkFlake(summaries) ==
    \E i \in 1..Len(summaries) : summaries[i].kind = "Flake"

RECURSIVE SeqsUpTo(_, _)
SeqsUpTo(S, n) ==
    IF n = 0 THEN {<<>>}
    ELSE LET shorter == SeqsUpTo(S, n - 1)
         IN  shorter \cup { Append(s, x) : s \in shorter, x \in S }

InitEND ==
    /\ e_pc = "call"
    /\ e_events \in SeqsUpTo(IntervalPool, MaxIntervals)
    /\ e_total \in Totals
    /\ e_tolerate \in Tolerances
    /\ e_before \in {<<>>, <<FlakeSummary>>}
    /\ e_summaries = e_before
    /\ e_panic = "none"

\* Part 1 at rest, for the specifications of the other parts
IdleEND ==
    /\ e_pc = "idle"
    /\ e_events = <<>>
    /\ e_total = 0
    /\ e_tolerate = 0
    /\ e_before = <<>>
    /\ e_summaries = <<>>
    /\ e_panic = "none"

CallExpectNoDisruption ==
    /\ e_pc = "call"
    /\ LET r == ExpectNoDisruption(e_summaries, e_tolerate, e_total, e_events)
       IN  /\ e_summaries' = r.summaries
           /\ e_panic' = r.panic
    /\ e_pc' = "done"
    /\ UNCHANGED <<e_events, e_total, e_tolerate, e_before>>
    /\ UNCHANGED <<harnessVars, monVars, recVars, pollVars, probeVars, locVars>>

NextEND == CallExpectNoDisruption

(***************************************************************************)
(* Part 2.  Run, runChaosmonkey, chaosMonkeyAdapter.Test, finalizeTest     *)
(*          (disruption.go:79-263, 352-383)                                *)
(*                                                                         *)
(* Test 0 is the test Run creates around fn (the upgrade function); tests  *)
(* 1..NumTests are the invariant tests runChaosmonkey registers.  Case k+1 *)
(* of the suite is the report case of test k.  chaosmonkey.Do starts one   *)
(* goroutine per registered test, waits until each is ready or done, runs  *)
(* the disruption, closes the stop channel and waits for every test.       *)
(***************************************************************************)

\* the number of registered invariant tests
NumTests == 2

\* the summaries all frameworks together may record
MaxSummaries == 1

Tests == 1..NumTests
AllTests == 0..NumTests

Panics == {"FailurePanic", "SkipPanic", "Other"}

\* how a Test method or the upgrade function ends: it returns, it fails
\* (framework.Failf) or it crashes; a skip is raised in Setup
BodyEnds == {"none", "FailurePanic", "Other"}

\* the name of test k's report case (disruption.go:81, 100-107)
CaseName(k) == IF k = 0 THEN <<"upgrade", 0>> ELSE <<"test", k>>
ClassName(k) == IF k = 0 THEN "upgrade" ELSE "disruption_tests"

\* junit.TestCase, as far as the harness sets it
NewCase(name, class) ==
    [name |-> name, classname |-> class, failures |-> <<>>, errors |-> <<>>,
     skipped |-> FALSE]

\* additionalTest, disruption.go:38-42, without its Duration
AdditionalTest(name, failure) ==
    [kind |-> "AdditionalTest", name |-> name, failure |-> failure]

\* an error value: nil, or an error and what its Error() returns
NilError == [nil |-> TRUE, msg |-> ""]
Errors == {NilError, [nil |-> FALSE, msg |-> ""], [nil |-> FALSE, msg |-> "boom"]}

\* the errors the bodies of the harness's tests hand to RecordJUnit
BodyErrors == {NilError, [nil |-> FALSE, msg |-> "boom"]}

\* the failure strings RecordJUnitResult is called with
Failures == {"", "boom"}

\* names RecordJUnit is called with
AdditionalNames == {<<"sub", 0>>}

\* the inputs ExpectNoDisruption is called with from a test body: no
\* disruption, 5 s and 20 s of 600 s at a tolerance of 0.02
BodyEvents == {<<>>, <<[from |-> 0, to |-> 5 * Second]>>,
               <<[from |-> 0, to |-> 20 * Second]>>}

RECURSIVE SumLen(_, _)
SumLen(f, S) ==
    IF S = {} THEN 0
    ELSE LET k == CHOOSE x \in S : TRUE IN Len(f[k]) + SumLen(f, S \ {k})

TotalSummaries == SumLen(TestSummaries, AllTests)

\* RecordJUnitResult, disruption.go:377-383
RecordJUnitResult(summaries, name, failure) ==
    Append(summaries, AdditionalTest(name, failure))

\* RecordJUnit returning nil whatever fn returned
RecordJUnitSwallowing(summaries, name, err) ==
    [summaries |-> Append(summaries,
                          AdditionalTest(name, IF err.nil THEN "" ELSE err.msg)),
     calls |-> 1,
     err |-> NilError]

\* RecordJUnit, disruption.go:356-370, when fn returns err: the summaries
\* afterwards, the invocations of fn and the error returned.  The failure
\* string stays empty for a nil error and is err.Error() otherwise.
RecordJUnit(summaries, name, err) ==
    [summaries |-> Append(summaries,
                          AdditionalTest(name, IF err.nil THEN "" ELSE err.msg)),
     calls |-> 1,
     err |-> err]

\* finalizeTest, disruption.go:199-213: the cases the additionalTest
\* summaries add to the suite, in order
RECURSIVE additionalCases(_)
additionalCases(summaries) ==
    IF summaries = <<>> THEN <<>>
    ELSE LET s == Head(summaries)
         IN  (IF s.kind = "AdditionalTest"
              THEN << [NewCase(s.name, "") EXCEPT
                          !.failures = IF s.failure # "" THEN <<[type |-> ""]>>
                                       ELSE <<>>] >>
              ELSE <<>>) \o additionalCases(Tail(summaries))

\* finalizeTest, disruption.go:215-218: the files written for the other
\* summaries; ok holds the positions whose WriteFile succeeds (the actions
\* take all of them, all but the first, or none).  The file
\* name holds the summary's kind, the case's name and the time, and the
\* path is joined to ReportDir whether or not it is set.
summaryFiles(summaries, name, ok) ==
    { [kind |-> summaries[k].kind, test |-> name] :
        k \in { j \in ok : summaries[j].kind # "AdditionalTest" } }

\* finalizeTest with every recovered panic reported as a failure
finalizeCaseAllFailures(tc, r, summaries) ==
    IF r = "none"
    THEN IF hasFrameworkFlake(summaries)
         THEN [tc EXCEPT !.failures = Append(@, [type |-> "Flake"])]
         ELSE tc
    ELSE [tc EXCEPT !.failures = <<[type |-> "Failure"]>>]

\* finalizeTest, disruption.go:221-254: what becomes of the test's own case
\* when recover() returned r
finalizeCase(tc, r, summaries) ==
    IF r = "none"
    THEN IF hasFrameworkFlake(summaries)
         THEN [tc EXCEPT !.failures = Append(@, [type |-> "Flake"])]
         ELSE tc
    ELSE CASE r = "FailurePanic" ->
                [tc EXCEPT !.failures = <<[type |-> "Failure"]>>]
           [] r = "SkipPanic" -> [tc EXCEPT !.skipped = TRUE]
           [] OTHER -> [tc EXCEPT !.errors = <<[type |-> "Panic"]>>]

\* the outcomes of the writes of a test with n summaries
WriteOutcomes(n) == {{}, 2..n, 1..n}

\* finalizeTest with a failed WriteFile recorded as a failure with ginkgo
finalizeTestEscalating(k, r, cs, summaries, ok) ==
    [cases |-> [cs EXCEPT ![k + 1] = finalizeCase(@, r, summaries)]
                  \o additionalCases(summaries),
     files |-> files \cup summaryFiles(summaries, cs[k + 1].name, ok),
     ginkgoFailed |->
        \/ ginkgoFailed
        \/ r # "none"
        \/ \E j \in 1..Len(summaries) :
              j \notin ok /\ summaries[j].kind # "AdditionalTest"]

\* finalizeTest writing the outcome to the suite's first case
finalizeTestFirstCase(k, r, cs, summaries, ok) ==
    [cases |-> [cs EXCEPT ![1] = finalizeCase(@, r, summaries)]
                  \o additionalCases(summaries),
     files |-> files \cup summaryFiles(summaries, cs[k + 1].name, ok),
     ginkgoFailed |-> ginkgoFailed \/ r # "none"]

\* finalizeTest, disruption.go:193-263, for test k whose case is cs[k+1] and
\* whose framework holds summaries: the suite's cases, the files and ginkgo's
\* failure state afterwards.  A panic ginkgo has not recorded is raised again
\* under GinkgoRecover (lines 256-262), which records it.
finalizeTest(k, r, cs, summaries, ok) ==
    [cases |-> [cs EXCEPT ![k + 1] = finalizeCase(@, r, summaries)]
                  \o additionalCases(summaries),
     files |-> files \cup summaryFiles(summaries, cs[k + 1].name, ok),
     ginkgoFailed |-> ginkgoFailed \/ r # "none"]

\* ready without the sync.Once
readyEveryTime(n) == n + 1

\* ready, disruption.go:174-178: sem.Ready under a sync.Once
readyOnce(n) == IF n = 0 THEN 1 ELSE n

\* the deferred calls with Teardown deferred before Setup
deferredTeardownAlways(teardown, n) ==
    <<"Teardown">> \o (IF n = 0 THEN <<"Ready">> ELSE <<>>)
                  \o <<"finalizeTest">>

\* the deferred calls of chaosMonkeyAdapter.Test, disruption.go:179, 180 and
\* 188, in the order they run in, the last deferred first: Teardown when it
\* was deferred, ready (which signals when n, the signals so far, is 0),
\* finalizeTest
deferred(teardown, n) ==
    (IF teardown THEN <<"Teardown">> ELSE <<>>)
        \o (IF n = 0 THEN <<"Ready">> ELSE <<>>)
        \o <<"finalizeTest">>

InitHarness ==
    /\ h_main = "wait"
    /\ h_pc = [k \in Tests |-> "start"]
    /\ TestSummaries = [k \in AllTests |-> <<>>]
    /\ cases = [k \in 1..(NumTests + 1) |->
                   NewCase(CaseName(k - 1), ClassName(k - 1))]
    /\ raised = [k \in AllTests |-> "none"]
    /\ recovered = [k \in AllTests |-> "none"]
    /\ ready = [k \in Tests |-> 0]
    /\ trace = [k \in Tests |-> <<>>]
    /\ files = {}
    /\ ReportDir \in BOOLEAN
    /\ ginkgoFailed = FALSE

\* the deferred calls of chaosMonkeyAdapter.Test (disruption.go:179, 180,
\* 188) once its body is over with panic p, the calls so far being tr, the
\* suite cs and the framework's summaries sm: Teardown when it was deferred
\* (taken to return normally, as UpgradeTest.Teardown does), ready,
\* finalizeTest; then the goroutine is done.
AdapterReturn(k, p, teardown, tr, cs, sm) ==
    \E ok \in WriteOutcomes(Len(sm)) :
        LET fin == finalizeTest(k, p, cs, sm, ok)
        IN  /\ raised' = [raised EXCEPT ![k] = p]
            /\ recovered' = [recovered EXCEPT ![k] = p]
            /\ ready' = [ready EXCEPT ![k] = readyOnce(@)]
            /\ trace' = [trace EXCEPT ![k] = tr \o deferred(teardown, ready[k])]
            /\ cases' = fin.cases
            /\ files' = fin.files
            /\ ginkgoFailed' = fin.ginkgoFailed
            /\ h_pc' = [h_pc EXCEPT ![k] = "done"]

\* chaosMonkeyAdapter.Test, disruption.go:171-185: the test is skipped
AdapterSkip(k) ==
    /\ h_pc[k] = "start"
    /\ AdapterReturn(k, "none", FALSE, <<>>,
                     [cases EXCEPT ![k + 1].skipped = TRUE], TestSummaries[k])
    /\ UNCHANGED <<h_main, TestSummaries, ReportDir>>
    /\ UNCHANGED <<endVars, monVars, recVars, pollVars, probeVars, locVars>>

\* chaosMonkeyAdapter.Test, disruption.go:186-187: BeforeEach or Setup panics
AdapterSetupPanics(k) ==
    /\ h_pc[k] = "start"
    /\ \E p \in Panics :
        AdapterReturn(k, p, FALSE, <<"Setup">>, cases, TestSummaries[k])
    /\ UNCHANGED <<h_main, TestSummaries, ReportDir>>
    /\ UNCHANGED <<endVars, monVars, recVars, pollVars, probeVars, locVars>>

\* chaosMonkeyAdapter.Test, disruption.go:186-190: Setup returns, Teardown is
\* deferred, ready is signalled and the test's Test method begins
AdapterSetup(k) ==
    /\ h_pc[k] = "start"
    /\ h_pc' = [h_pc EXCEPT ![k] = "test"]
    /\ ready' = [ready EXCEPT ![k] = readyOnce(@)]
    /\ trace' = [trace EXCEPT ![k] = <<"Setup", "Ready", "Test">>]
    /\ UNCHANGED <<h_main, TestSummaries, cases, raised, recovered, files,
                   ReportDir, ginkgoFailed>>
    /\ UNCHANGED <<endVars, monVars, recVars, pollVars, probeVars, locVars>>

\* what a body may call while it runs: FrameworkFlakef, and RecordJUnit or
\* RecordJUnitResult with each name and outcome
BodyCalls ==
    {[call |-> "FrameworkFlakef"]} \cup
    { [call |-> "RecordJUnit", name |-> n, err |-> e] :
        n \in AdditionalNames, e \in BodyErrors }

\* the framework's summaries after a body has made the calls of script
RECURSIVE runBody(_, _)
runBody(summaries, script) ==
    IF script = <<>> THEN summaries
    ELSE runBody(IF Head(script).call = "FrameworkFlakef"
                 THEN FrameworkFlakef(summaries)
                 ELSE RecordJUnit(summaries, Head(script).name,
                                  Head(script).err).summaries,
                 Tail(script))

\* the scripts the bound on the summaries still allows
Scripts ==
    SeqsUpTo(BodyCalls, IF TotalSummaries >= MaxSummaries THEN 0
                        ELSE MaxSummaries - TotalSummaries)

\* a test's Test method (disruption.go:190) runs: it makes the calls of a
\* script on its own framework and then returns or panics
TestEnd(k) ==
    /\ h_pc[k] = "test"
    /\ \E script \in Scripts, p \in BodyEnds :
        LET sm == runBody(TestSummaries[k], script)
        IN  /\ TestSummaries' = [TestSummaries EXCEPT ![k] = sm]
            /\ AdapterReturn(k, p, TRUE, trace[k], cases, sm)
    /\ UNCHANGED <<h_main, ReportDir>>
    /\ UNCHANGED <<endVars, monVars, recVars, pollVars, probeVars, locVars>>

\* a test's Test method runs and ends with a call of ExpectNoDisruption (as
\* UpgradeTest.Test does, service.go:165), which returns or panics
TestExpectNoDisruption(k) ==
    /\ h_pc[k] = "test"
    /\ \E script \in Scripts, ev \in BodyEvents :
        /\ TotalSummaries + Len(script) < MaxSummaries
        /\ LET r == ExpectNoDisruption(runBody(TestSummaries[k], script),
                                    2, 600 * Second, ev)
           IN  /\ TestSummaries' = [TestSummaries EXCEPT ![k] = r.summaries]
               /\ AdapterReturn(k, r.panic, TRUE, trace[k], cases, r.summaries)
    /\ UNCHANGED <<h_main, ReportDir>>
    /\ UNCHANGED <<endVars, monVars, recVars, pollVars, probeVars, locVars>>

\* chaosmonkey.Do: every registered test is ready or done, the disruption
\* (Run's function around fn, disruption.go:83-88) begins
DoDisruption ==
    /\ h_main = "wait"
    /\ \A k \in Tests : ready[k] >= 1 \/ h_pc[k] = "done"
    /\ h_main' = "fn"
    /\ UNCHANGED <<h_pc, TestSummaries, cases, raised, recovered, ready, trace,
                   files, ReportDir, ginkgoFailed>>
    /\ UNCHANGED <<endVars, monVars, recVars, pollVars, probeVars, locVars>>

\* Run, disruption.go:85-86: what recover() returns in the deferred
\* finalizeTest when fn ended with panic p.  The deferred g.GinkgoRecover of
\* line 86 runs before it, recovers p and records it with ginkgo.
RunRecovered(p) == "none"

\* Run, disruption.go:83-88: fn makes the calls of a script on Run's
\* framework and returns or panics, GinkgoRecover and finalizeTest run, and
\* chaosmonkey.Do closes the stop channel
FnEnd ==
    /\ h_main = "fn"
    /\ \E script \in Scripts, p \in BodyEnds :
        LET sm == runBody(TestSummaries[0], script)
            r  == RunRecovered(p)
        IN  \E ok \in WriteOutcomes(Len(sm)) :
              LET fin == finalizeTest(0, r, cases, sm, ok)
              IN  /\ TestSummaries' = [TestSummaries EXCEPT ![0] = sm]
                  /\ raised' = [raised EXCEPT ![0] = p]
                  /\ recovered' = [recovered EXCEPT ![0] = r]
                  /\ cases' = fin.cases
                  /\ files' = fin.files
                  /\ ginkgoFailed' = (fin.ginkgoFailed \/ p # "none")
    /\ h_main' = "stop"
    /\ UNCHANGED <<h_pc, ready, trace, ReportDir>>
    /\ UNCHANGED <<endVars, monVars, recVars, pollVars, probeVars, locVars>>

\* runChaosmonkey, disruption.go:132-139: a case all of whose failures are
\* flakes, and its failures after the loop of lines 133-139
allFlakes(tc) ==
    /\ Len(tc.failures) > 0 /\ Len(tc.errors) = 0 /\ ~tc.skipped
    /\ \A j \in 1..Len(tc.failures) : tc.failures[j].type = "Flake"

\* allFlakes without the else branch of line 137
allFlakesAnyFailure(tc) ==
    Len(tc.failures) > 0 /\ Len(tc.errors) = 0 /\ ~tc.skipped

retyped(tc) ==
    [tc EXCEPT !.failures =
        [j \in 1..Len(tc.failures) |->
            IF tc.failures[j].type = "Flake" THEN [type |-> "Failure"]
            ELSE tc.failures[j]]]

\* runChaosmonkey, disruption.go:140-146: the cases appended for cs, in order
RECURSIVE passingCopies(_)
passingCopies(cs) ==
    IF cs = <<>> THEN <<>>
    ELSE (IF allFlakes(Head(cs))
          THEN <<NewCase(Head(cs).name, Head(cs).classname)>>
          ELSE <<>>) \o passingCopies(Tail(cs))

\* the loop of lines 131-147 with the synthetic case appended for any case
\* that has failures
RECURSIVE passingCopiesAnyFailure(_)
passingCopiesAnyFailure(cs) ==
    IF cs = <<>> THEN <<>>
    ELSE (IF allFlakesAnyFailure(Head(cs))
          THEN <<NewCase(Head(cs).name, Head(cs).classname)>>
          ELSE <<>>) \o passingCopiesAnyFailure(Tail(cs))

finalizeSuiteAnyFailure(cs) ==
    [k \in 1..Len(cs) |-> retyped(cs[k])] \o passingCopiesAnyFailure(cs)

\* runChaosmonkey, disruption.go:131-147: the loop ranges over the cases
\* there are when it starts
finalizeSuite(cs) ==
    [k \in 1..Len(cs) |-> retyped(cs[k])] \o passingCopies(cs)

\* runChaosmonkey, disruption.go:125-158: chaosmonkey.Do has returned (every
\* test is done) and the deferred function runs
SuiteFinalize ==
    /\ h_main = "stop"
    /\ \A k \in Tests : h_pc[k] = "done"
    /\ cases' = finalizeSuite(cases)
    /\ \E created \in BOOLEAN :
        files' = IF ReportDir /\ created
                 THEN files \cup {[kind |-> "junit", test |-> <<"suite", 0>>]}
                 ELSE files
    /\ h_main' = "end"
    /\ UNCHANGED <<h_pc, TestSummaries, raised, recovered, ready, trace,
                   ReportDir, ginkgoFailed>>
    /\ UNCHANGED <<endVars, monVars, recVars, pollVars, probeVars, locVars>>

\* Part 2 at rest, for the specifications of the other parts
IdleHarness ==
    /\ h_main = "idle"
    /\ h_pc = [k \in Tests |-> "idle"]
    /\ TestSummaries = [k \in AllTests |-> <<>>]
    /\ cases = <<>>
    /\ raised = [k \in AllTests |-> "none"]
    /\ recovered = [k \in AllTests |-> "none"]
    /\ ready = [k \in Tests |-> 0]
    /\ trace = [k \in Tests |-> <<>>]
    /\ files = {}
    /\ ReportDir = FALSE
    /\ ginkgoFailed = FALSE

NextHarness ==
    \/ \E k \in Tests : AdapterSkip(k)
    \/ \E k \in Tests : AdapterSetupPanics(k)
    \/ \E k \in Tests : AdapterSetup(k)
    \/ \E k \in Tests : TestExpectNoDisruption(k)
    \/ \E k \in Tests : TestEnd(k)
    \/ DoDisruption
    \/ FnEnd
    \/ SuiteFinalize

(***************************************************************************)
(* Part 3.  UpgradeTest.Test and startEndpointMonitoring                   *)
(*          (service.go:134-281), with the Monitor and the Samplers        *)
(*                                                                         *)
(* Time is in whole seconds.  A step that does not block takes no time:    *)
(* the clock ticks only when every goroutine waits (for done, for the end  *)
(* of the sleep, for its ticker, for its probe).  The Sampler's loop and   *)
(* the Monitor's log are those of the specification's sections 4.1, 4.2    *)
(* and 5; the two probe functions are the closures of service.go.          *)
(***************************************************************************)

\* the polling interval of both samplers, service.go:198 and 246
Interval == 1

\* the http clients' Timeout, service.go:187 and 234
ProbeTimeout == 10

\* the sleep after done, service.go:161
SettleSeconds == 15

\* the tolerance of service.go:165, 0.02, in hundredths
Tolerance == 2

\* the latest second at which the done channel is closed
MaxUpgrade == 1

\* the transitions the probes may see, over both samplers
MaxFlips == 2

\* the "still failing" conditions recorded, over both samplers
MaxContinuing == 1

\* the probes that get no answer before the client's timeout
MaxHangs == 1

\* the calls of m.Intervals other than Test's own
MaxReads == 2

Samplers == {"reused", "new"}

\* service.go:196-197
reusedConnectionLocator == "service-loadbalancer-with-pdb/reused"
newConnectionLocator == "service-loadbalancer-with-pdb/new"

\* both closures reporting under the locator of the first
LocatorOfFirst(s) == reusedConnectionLocator

\* the locator the closure of sampler s sets in its conditions,
\* service.go:212, 219 and 260, 267
LocatorOf(s) ==
    IF s = "reused" THEN reusedConnectionLocator ELSE newConnectionLocator

\* what a GET of the echo URL may give: a body holding "Hello", a body
\* without it, a body that cannot be read, no response at all
Responses == {"hello", "wrongBody", "readError", "transportError"}

\* service.go:199-206 and 247-254: the err the switch of line 207 reads.  The
\* body and err of line 202 are declared by := inside the if block, so the
\* read error and the error of line 204 are assigned to that inner err.
probeErr(resp) == resp = "transportError"

NoCondition == [level |-> "none", locator |-> "", message |-> "nil"]

\* the closures with the "began" condition returned on any error
sampleFnAnyError(locator, previous, resp) ==
    LET err == probeErr(resp)
    IN  [condition |->
            IF ~err /\ ~previous
            THEN [level |-> "Info", locator |-> locator, message |-> "ended"]
            ELSE IF err
            THEN [level |-> "Error", locator |-> locator, message |-> "began"]
            ELSE NoCondition,
         next |-> ~err]

\* the closures handed to monitor.NewSampler, service.go:198-226 and
\* 246-274: the condition and the next state for a probe that got resp
sampleFn(locator, previous, resp) ==
    LET err == probeErr(resp)
    IN  [condition |->
            IF ~err /\ ~previous
            THEN [level |-> "Info", locator |-> locator, message |-> "ended"]
            ELSE IF err /\ previous
            THEN [level |-> "Error", locator |-> locator, message |-> "began"]
            ELSE NoCondition,
         next |-> ~err]

\* the condition handed to WhenFailing, service.go:226-230 and 274-278
continuingCondition(locator) ==
    [level |-> "Error", locator |-> locator, message |-> "continuing"]

\* Monitor: a condition is appended to the log (specification, 3 and 4.2)
RecordLosing(l, c) == IF Len(l) >= 1 THEN <<c>> ELSE Append(l, c)

Record(l, c) == Append(l, c)

\* Monitor.Intervals(time.Time{}, time.Time{}): a copy of the whole log
\* (specification, 4.2)
Intervals(l) == l

\* Test going on without the sleep
sleepSkipped(since) == now >= since

\* time.Sleep(15 * time.Second), service.go:161: whether the sleep begun at
\* since is over
sleepOver(since) == now >= since + SettleSeconds

\* a Sampler that keeps the result of a probe whatever the context
discardsNothing(done) == FALSE

\* Sampler (specification 4.1 and 5): the result of a probe is discarded
\* once the context is cancelled
discards(done) == done

\* context.CancelFunc left uncalled
cancelForgotten(c) == c

\* cancel(), service.go:162: the context is cancelled from then on
cancel(c) == TRUE

NoPolls == [upDown |-> 0, downUp |-> 0, began |-> 0, ended |-> 0,
            stray |-> 0, continuing |-> 0, hung |-> 0, discarded |-> 0]

InitMon ==
    /\ t_pc = "entry"
    /\ unsupportedPlatform \in BOOLEAN
    /\ now = 0
    /\ doneClosed = FALSE
    /\ doneAt = 0
    /\ startTime = -1
    /\ endTime = -1
    /\ sampling = FALSE
    /\ cancelled = FALSE
    /\ s_pc = [s \in Samplers |-> "none"]
    /\ isUp = [s \in Samplers |-> TRUE]
    /\ due = [s \in Samplers |-> FALSE]
    /\ age = [s \in Samplers |-> 0]
    /\ polls = [s \in Samplers |-> NoPolls]
    /\ log = <<>>
    /\ snapshots = <<>>
    /\ evaluations = <<>>

\* Part 3 at rest, for the specifications of the other parts
IdleMon ==
    /\ t_pc = "idle"
    /\ unsupportedPlatform = FALSE
    /\ now = 0
    /\ doneClosed = FALSE
    /\ doneAt = 0
    /\ startTime = -1
    /\ endTime = -1
    /\ sampling = FALSE
    /\ cancelled = FALSE
    /\ s_pc = [s \in Samplers |-> "none"]
    /\ isUp = [s \in Samplers |-> TRUE]
    /\ due = [s \in Samplers |-> FALSE]
    /\ age = [s \in Samplers |-> 0]
    /\ polls = [s \in Samplers |-> NoPolls]
    /\ log = <<>>
    /\ snapshots = <<>>
    /\ evaluations = <<>>

\* UpgradeTest.Test, service.go:135-156: up to the wait for done.  On an
\* unsupported platform Test returns at once; a failing LoadClientset
\* panics; otherwise startEndpointMonitoring starts both samplers (each is
\* created with the previous state up, specification 4.1), start is taken
\* and m.StartSampling is called.
TestBegin ==
    /\ t_pc = "entry"
    /\ \/ /\ unsupportedPlatform
          /\ t_pc' = "returned"
          /\ UNCHANGED <<s_pc, startTime, sampling>>
       \/ /\ ~unsupportedPlatform
          /\ t_pc' = "panicked"
          /\ UNCHANGED <<s_pc, startTime, sampling>>
       \/ /\ ~unsupportedPlatform
          /\ s_pc' = [s \in Samplers |-> "idle"]
          /\ startTime' = now
          /\ sampling' = TRUE
          /\ t_pc' = "waiting"
    /\ UNCHANGED <<unsupportedPlatform, now, doneClosed, doneAt, endTime,
                   cancelled, isUp, due, age, polls, log, snapshots,
                   evaluations>>
    /\ UNCHANGED <<endVars, harnessVars, recVars, pollVars, probeVars, locVars>>

\* chaosmonkey closes the stop channel Test was handed as done
CloseDone ==
    /\ t_pc \in {"entry", "waiting"}
    /\ ~doneClosed
    /\ doneClosed' = TRUE
    /\ UNCHANGED <<t_pc, unsupportedPlatform, now, doneAt, startTime, endTime,
                   sampling, cancelled, s_pc, isUp, due, age, polls, log,
                   snapshots, evaluations>>
    /\ UNCHANGED <<endVars, harnessVars, recVars, pollVars, probeVars, locVars>>

\* UpgradeTest.Test, service.go:159-161: done is read and the sleep begins
TestDone ==
    /\ t_pc = "waiting"
    /\ doneClosed
    /\ doneAt' = now
    /\ t_pc' = "settling"
    /\ UNCHANGED <<unsupportedPlatform, now, doneClosed, startTime, endTime,
                   sampling, cancelled, s_pc, isUp, due, age, polls, log,
                   snapshots, evaluations>>
    /\ UNCHANGED <<endVars, harnessVars, recVars, pollVars, probeVars, locVars>>

\* UpgradeTest.Test, service.go:162-163: the sleep is over, cancel() and end
TestCancel ==
    /\ t_pc = "settling"
    /\ sleepOver(doneAt)
    /\ cancelled' = cancel(cancelled)
    /\ endTime' = now
    /\ t_pc' = "cancelled"
    /\ UNCHANGED <<unsupportedPlatform, now, doneClosed, doneAt, startTime,
                   sampling, s_pc, isUp, due, age, polls, log, snapshots,
                   evaluations>>
    /\ UNCHANGED <<endVars, harnessVars, recVars, pollVars, probeVars, locVars>>

\* UpgradeTest.Test, service.go:165-173: the intervals are read and handed
\* to ExpectNoDisruption; that call and the checks of the finalizer after it
\* return or panic
TestEvaluate ==
    /\ t_pc = "cancelled"
    /\ snapshots' = Append(snapshots, Intervals(log))
    /\ evaluations' = Append(evaluations,
                             [tolerate |-> Tolerance,
                              total |-> endTime - startTime,
                              events |-> Intervals(log)])
    /\ t_pc' \in {"returned", "panicked"}
    /\ UNCHANGED <<unsupportedPlatform, now, doneClosed, doneAt, startTime,
                   endTime, sampling, cancelled, s_pc, isUp, due, age, polls,
                   log>>
    /\ UNCHANGED <<endVars, harnessVars, recVars, pollVars, probeVars, locVars>>

\* the transitions the samplers have seen
Flips ==
    polls["reused"].upDown + polls["reused"].downUp
        + polls["new"].upDown + polls["new"].downUp

Continuings == polls["reused"].continuing + polls["new"].continuing

Hangs == polls["reused"].hung + polls["new"].hung

\* the probes in flight that will end with the timeout error of a sample
\* that is up
Pending == Cardinality({s \in Samplers : s_pc[s] = "probing" /\ isUp[s]})

\* whether the bound on the transitions lets the probe of s get resp
Allowed(s, resp) ==
    (~probeErr(resp)) = isUp[s] \/ Flips + Pending < MaxFlips

\* the counters of a sampler after a poll that saw previous and got r
Counted(p, previous, r) ==
    [p EXCEPT
       !.upDown = @ + (IF previous /\ ~r.next THEN 1 ELSE 0),
       !.downUp = @ + (IF ~previous /\ r.next THEN 1 ELSE 0),
       !.began  = @ + (IF r.condition.message = "began" THEN 1 ELSE 0),
       !.ended  = @ + (IF r.condition.message = "ended" THEN 1 ELSE 0),
       !.stray  = @ + (IF r.condition # NoCondition /\ previous = r.next
                       THEN 1 ELSE 0)]

\* Sampler (specification 4.1): what the loop does with the result r of the
\* probe function: a condition is appended to the log, and the state becomes
\* what the probe function said.  When the previous sample was down and this
\* one is down too, the condition of WhenFailing is appended or, the rate
\* being capped, is not (still).
Sampled(s, r, still) ==
    /\ still => ~isUp[s] /\ ~r.next /\ Continuings < MaxContinuing
    /\ polls' = [polls EXCEPT ![s] =
                    [Counted(@, isUp[s], r) EXCEPT
                        !.continuing = @ + (IF still THEN 1 ELSE 0)]]
    /\ isUp' = [isUp EXCEPT ![s] = r.next]
    /\ log' = IF r.condition # NoCondition
              THEN Record(log, r.condition)
              ELSE IF still
              THEN Record(log, continuingCondition(LocatorOf(s)))
              ELSE log

\* Sampler (specification 4.1): the ticker has fired and the context is not
\* cancelled; the probe function is called and answers within the second
SamplerPoll(s) ==
    /\ s_pc[s] = "idle"
    /\ due[s]
    /\ ~cancelled
    /\ \E resp \in Responses, still \in BOOLEAN :
        /\ Allowed(s, resp)
        /\ Sampled(s, sampleFn(LocatorOf(s), isUp[s], resp), still)
    /\ due' = [due EXCEPT ![s] = FALSE]
    /\ UNCHANGED <<t_pc, unsupportedPlatform, now, doneClosed, doneAt,
                   startTime, endTime, sampling, cancelled, s_pc, age,
                   snapshots, evaluations>>
    /\ UNCHANGED <<endVars, harnessVars, recVars, pollVars, probeVars, locVars>>

\* Sampler (specification 4.1): the probe function is called and its GET
\* gets no answer: the probe is in flight until the client's timeout
SamplerHang(s) ==
    /\ s_pc[s] = "idle"
    /\ due[s]
    /\ ~cancelled
    /\ Hangs < MaxHangs
    /\ isUp[s] => Flips + Pending < MaxFlips
    /\ s_pc' = [s_pc EXCEPT ![s] = "probing"]
    /\ due' = [due EXCEPT ![s] = FALSE]
    /\ age' = [age EXCEPT ![s] = 0]
    /\ polls' = [polls EXCEPT ![s].hung = @ + 1]
    /\ UNCHANGED <<t_pc, unsupportedPlatform, now, doneClosed, doneAt,
                   startTime, endTime, sampling, cancelled, isUp, log,
                   snapshots, evaluations>>
    /\ UNCHANGED <<endVars, harnessVars, recVars, pollVars, probeVars, locVars>>

\* Sampler (specification 4.1 and 5): a probe in flight ends with the
\* client's timeout error after ProbeTimeout seconds.  Its result is
\* discarded when the context is cancelled by then, and the loop ends.
SamplerReturn(s) ==
    /\ s_pc[s] = "probing"
    /\ age[s] = ProbeTimeout
    /\ IF discards(cancelled)
       THEN /\ s_pc' = [s_pc EXCEPT ![s] = "exited"]
            /\ polls' = [polls EXCEPT ![s].discarded = @ + 1]
            /\ UNCHANGED <<log, isUp>>
       ELSE /\ s_pc' = [s_pc EXCEPT ![s] = "idle"]
            /\ \E still \in BOOLEAN :
                 Sampled(s, sampleFn(LocatorOf(s), isUp[s], "transportError"),
                         still)
    /\ UNCHANGED <<t_pc, unsupportedPlatform, now, doneClosed, doneAt,
                   startTime, endTime, sampling, cancelled, due, age,
                   snapshots, evaluations>>
    /\ UNCHANGED <<endVars, harnessVars, recVars, pollVars, probeVars, locVars>>

\* Sampler (specification 4.1 and 5): the loop sees the context cancelled
SamplerExit(s) ==
    /\ s_pc[s] = "idle"
    /\ cancelled
    /\ s_pc' = [s_pc EXCEPT ![s] = "exited"]
    /\ UNCHANGED <<t_pc, unsupportedPlatform, now, doneClosed, doneAt,
                   startTime, endTime, sampling, cancelled, isUp, due, age,
                   polls, log, snapshots, evaluations>>
    /\ UNCHANGED <<endVars, harnessVars, recVars, pollVars, probeVars, locVars>>

\* the end of the model's time
MaxTime == MaxUpgrade + SettleSeconds + ProbeTimeout + 2 * Interval

\* a goroutine has a step to take before time passes
Urgent ==
    \/ t_pc \in {"entry", "cancelled"}
    \/ t_pc = "waiting" /\ (doneClosed \/ now >= MaxUpgrade)
    \/ t_pc = "settling" /\ sleepOver(doneAt)
    \/ \E s \in Samplers :
        \/ s_pc[s] = "idle" /\ (cancelled \/ due[s])
        \/ s_pc[s] = "probing" /\ age[s] = ProbeTimeout

\* one second passes: every running sampler's ticker fires, every probe in
\* flight is a second older
Tick ==
    /\ ~Urgent
    /\ now < MaxTime
    /\ \/ t_pc \notin {"returned", "panicked"}
       \/ \E s \in Samplers : s_pc[s] \in {"idle", "probing"}
    /\ now' = now + Interval
    /\ due' = [s \in Samplers |-> due[s] \/ s_pc[s] \in {"idle", "probing"}]
    /\ age' = [s \in Samplers |->
                  IF s_pc[s] = "probing" THEN age[s] + Interval ELSE age[s]]
    /\ UNCHANGED <<t_pc, unsupportedPlatform, doneClosed, doneAt, startTime,
                   endTime, sampling, cancelled, s_pc, isUp, polls, log,
                   snapshots, evaluations>>
    /\ UNCHANGED <<endVars, harnessVars, recVars, pollVars, probeVars, locVars>>

\* some other caller reads the Monitor's intervals
ReadIntervals ==
    /\ sampling
    /\ Len(snapshots) < MaxReads + Len(evaluations)
    /\ snapshots' = Append(snapshots, Intervals(log))
    /\ UNCHANGED <<t_pc, unsupportedPlatform, now, doneClosed, doneAt,
                   startTime, endTime, sampling, cancelled, s_pc, isUp, due,
                   age, polls, log, evaluations>>
    /\ UNCHANGED <<endVars, harnessVars, recVars, pollVars, probeVars, locVars>>

NextUpgrade ==
    \/ TestBegin
    \/ CloseDone
    \/ TestDone
    \/ TestCancel
    \/ TestEvaluate
    \/ \E s \in Samplers : SamplerPoll(s)
    \/ \E s \in Samplers : SamplerHang(s)
    \/ \E s \in Samplers : SamplerReturn(s)
    \/ \E s \in Samplers : SamplerExit(s)
    \/ Tick

\* the samplers' tickers fire, however long that took
TickerFires ==
    /\ \E s \in Samplers : s_pc[s] = "idle" /\ ~due[s]
    /\ ~cancelled
    /\ due' = [s \in Samplers |-> due[s] \/ s_pc[s] = "idle"]
    /\ UNCHANGED <<t_pc, unsupportedPlatform, now, doneClosed, doneAt,
                   startTime, endTime, sampling, cancelled, s_pc, isUp, age,
                   polls, log, snapshots, evaluations>>
    /\ UNCHANGED <<endVars, harnessVars, recVars, pollVars, probeVars, locVars>>

NextMonitor ==
    \/ TestBegin
    \/ \E s \in Samplers : SamplerPoll(s)
    \/ TickerFires
    \/ ReadIntervals

\* ExpectNoDisruption on its own, over the inputs of Part 1
(***************************************************************************)
(* Part 4.  RecordJUnit and RecordJUnitResult (disruption.go:352-383) and  *)
(*          what finalizeTest makes of their summaries (lines 199-213)     *)
(***************************************************************************)

\* the summaries a framework holds before the call, at most
MaxRecorded == 1

\* names RecordJUnit and RecordJUnitResult are called with
RecordNames == {<<"sub", 0>>, <<"sub", 1>>}

RecordedPool ==
    {FlakeSummary, AdditionalTest(<<"sub", 0>>, ""),
     AdditionalTest(<<"sub", 0>>, "boom")}

InitRec ==
    /\ r_pc = "call"
    /\ r_in \in
          { [via |-> "RecordJUnit", name |-> n, err |-> e, failure |-> "",
             before |-> b] :
               n \in RecordNames, e \in Errors,
               b \in SeqsUpTo(RecordedPool, MaxRecorded) }
          \cup
          { [via |-> "RecordJUnitResult", name |-> n, err |-> NilError,
             failure |-> f, before |-> b] :
               n \in RecordNames, f \in Failures,
               b \in SeqsUpTo(RecordedPool, MaxRecorded) }
    /\ r_summaries = r_in.before
    /\ r_calls = 0
    /\ r_returned = NilError
    /\ r_cases = <<NewCase(CaseName(0), ClassName(0))>>

\* Part 4 at rest, for the specifications of the other parts
IdleRec ==
    /\ r_pc = "idle"
    /\ r_in = [via |-> "none", name |-> <<"sub", 0>>, err |-> NilError,
               failure |-> "", before |-> <<>>]
    /\ r_summaries = <<>>
    /\ r_calls = 0
    /\ r_returned = NilError
    /\ r_cases = <<>>

\* a call of RecordJUnit, disruption.go:356-370
CallRecordJUnit ==
    /\ r_pc = "call"
    /\ r_in.via = "RecordJUnit"
    /\ LET res == RecordJUnit(r_summaries, r_in.name, r_in.err)
       IN  /\ r_summaries' = res.summaries
           /\ r_calls' = r_calls + res.calls
           /\ r_returned' = res.err
    /\ r_pc' = "recorded"
    /\ UNCHANGED <<r_in, r_cases>>
    /\ UNCHANGED <<endVars, harnessVars, monVars, pollVars, probeVars, locVars>>

\* a call of RecordJUnitResult, disruption.go:377-383
CallRecordJUnitResult ==
    /\ r_pc = "call"
    /\ r_in.via = "RecordJUnitResult"
    /\ r_summaries' = RecordJUnitResult(r_summaries, r_in.name, r_in.failure)
    /\ r_pc' = "recorded"
    /\ UNCHANGED <<r_in, r_calls, r_returned, r_cases>>
    /\ UNCHANGED <<endVars, harnessVars, monVars, pollVars, probeVars, locVars>>

\* finalizeTest, disruption.go:193-263, of the test that made the call, which
\* has returned; its files are not written
RecordFinalize ==
    /\ r_pc = "recorded"
    /\ r_cases' = finalizeTest(0, "none", r_cases, r_summaries, {}).cases
    /\ r_pc' = "finalized"
    /\ UNCHANGED <<r_in, r_summaries, r_calls, r_returned>>
    /\ UNCHANGED <<endVars, harnessVars, monVars, pollVars, probeVars, locVars>>

NextRec == CallRecordJUnit \/ CallRecordJUnitResult \/ RecordFinalize

(***************************************************************************)
(* Part 5.  TestReachableHTTPWithMinSuccessCount (service.go:289-305)      *)
(*                                                                         *)
(* wait.PollImmediate calls the condition at once and then at every        *)
(* interval until the condition returns true or the timeout is over, when  *)
(* it returns an error; the timeout is counted in the polls that fit in.   *)
(***************************************************************************)

\* the polls that fit in before the timeout, at most
MaxPolls == 4

\* successCount, at most
MaxSuccessCount == 3

\* the condition without the reset of line 301
pollFnNoReset(cnt, min, success) ==
    IF success
    THEN [cnt |-> cnt + 1, done |-> cnt + 1 >= min]
    ELSE [cnt |-> cnt, done |-> FALSE]

\* the condition handed to wait.PollImmediate, service.go:291-303, for a poll
\* whose result.Status is HTTPSuccess (success) or not: the counter
\* afterwards and the bool returned
pollFn(cnt, min, success) ==
    IF success
    THEN [cnt |-> cnt + 1, done |-> cnt + 1 >= min]
    ELSE [cnt |-> 0, done |-> FALSE]

InitPoll ==
    /\ p_pc = "polling"
    /\ successCount \in 1..MaxSuccessCount
    /\ consecutiveSuccessCnt = 0
    /\ p_fit \in 1..MaxPolls
    /\ p_results = <<>>

\* Part 5 at rest, for the specifications of the other parts
IdlePoll ==
    /\ p_pc = "idle"
    /\ successCount = 1
    /\ consecutiveSuccessCnt = 0
    /\ p_fit = 1
    /\ p_results = <<>>

\* wait.PollImmediate calls the condition (service.go:291-303), PokeHTTP
\* having succeeded or not; when the condition returns true PollImmediate
\* returns nil and ExpectNoError (line 304) passes
Poll ==
    /\ p_pc = "polling"
    /\ Len(p_results) < p_fit
    /\ \E success \in BOOLEAN :
        LET res == pollFn(consecutiveSuccessCnt, successCount, success)
        IN  /\ consecutiveSuccessCnt' = res.cnt
            /\ p_results' = Append(p_results, success)
            /\ p_pc' = IF res.done THEN "returned" ELSE "polling"
    /\ UNCHANGED <<successCount, p_fit>>
    /\ UNCHANGED <<endVars, harnessVars, monVars, recVars, probeVars, locVars>>

\* the timeout is over: wait.PollImmediate returns its error and
\* ExpectNoError (service.go:304) fails the test
PollTimeout ==
    /\ p_pc = "polling"
    /\ Len(p_results) >= p_fit
    /\ p_pc' = "failed"
    /\ UNCHANGED <<successCount, consecutiveSuccessCnt, p_fit, p_results>>
    /\ UNCHANGED <<endVars, harnessVars, monVars, recVars, probeVars, locVars>>

NextPoll == Poll \/ PollTimeout

(***************************************************************************)
(* Part 6.  The two probe closures of startEndpointMonitoring              *)
(*          (service.go:198-226 and 246-274), called one call after        *)
(*          another, each with the next its last call returned             *)
(***************************************************************************)

\* the calls of the closures, at most
MaxProbes == 3

InitProbe ==
    /\ q_previous \in [Samplers -> BOOLEAN]
    /\ q_before = q_previous
    /\ q_resp = [s \in Samplers |-> "none"]
    /\ q_condition = [s \in Samplers |-> NoCondition]
    /\ q_calls = 0

\* Part 6 at rest, for the specifications of the other parts
IdleProbe ==
    /\ q_previous = [s \in Samplers |-> TRUE]
    /\ q_before = [s \in Samplers |-> TRUE]
    /\ q_resp = [s \in Samplers |-> "idle"]
    /\ q_condition = [s \in Samplers |-> NoCondition]
    /\ q_calls = 0

\* the closure of sampler s is called with the next of its last call, and its
\* GET gives resp
Probe(s) ==
    /\ q_calls < MaxProbes
    /\ \A t \in Samplers : q_resp[t] # "idle"
    /\ \E resp \in Responses :
        LET r == sampleFn(LocatorOf(s), q_previous[s], resp)
        IN  /\ q_before' = [q_before EXCEPT ![s] = q_previous[s]]
            /\ q_previous' = [q_previous EXCEPT ![s] = r.next]
            /\ q_resp' = [q_resp EXCEPT ![s] = resp]
            /\ q_condition' = [q_condition EXCEPT ![s] = r.condition]
    /\ q_calls' = q_calls + 1
    /\ UNCHANGED <<endVars, harnessVars, monVars, recVars, pollVars, locVars>>

NextProbe == \E s \in Samplers : Probe(s)

(***************************************************************************)
(* Part 7.  The locators of monitorapi (identification.go:9-63)            *)
(*                                                                         *)
(* A string is the sequence of its characters.  The names are made of a    *)
(* letter that is no escape, the letter n, the space, the slash, the       *)
(* double quote, the backslash and the newline.                            *)
(***************************************************************************)

\* the length of a name, at most (a name that begins like a locator is that
\* much longer)
MaxNameLen == 2

\* the double quote, the backslash, the newline
DQ == "\""
BS == "\\"
LF == "\n"

NameChars == {"k", "n", " ", "/", DQ, BS, LF}

\* "e2e-test/", "node/" and "clusteroperator/", identification.go:10, 19,
\* 32, 41, 49, 58
E2ETestPrefix == <<"e", "2", "e", "-", "t", "e", "s", "t", "/">>
NodePrefix == <<"n", "o", "d", "e", "/">>
OperatorPrefix == <<"c", "l", "u", "s", "t", "e", "r", "o", "p", "e", "r", "a",
                    "t", "o", "r", "/">>

Kinds == {"e2e-test", "node", "clusteroperator"}

\* the names the constructors are called with: every short string, and the
\* strings that begin like a locator of some kind
Names ==
    SeqsUpTo(NameChars, MaxNameLen) \cup
    { pre \o n : pre \in {E2ETestPrefix, NodePrefix, OperatorPrefix},
                 n \in SeqsUpTo(NameChars, MaxNameLen - 1) }

\* strings.HasPrefix and strings.TrimPrefix
HasPrefix(str, prefix) ==
    /\ Len(str) >= Len(prefix)
    /\ SubSeq(str, 1, Len(prefix)) = prefix

TrimPrefix(str, prefix) ==
    IF HasPrefix(str, prefix) THEN SubSeq(str, Len(prefix) + 1, Len(str))
    ELSE str

\* strings.SplitN(str, sep, 2) for a separator of one character: the string
\* itself when sep is not in it, and else what is before and what is after
\* the first sep
SplitN2(str, sep) ==
    LET at == { i \in 1..Len(str) : str[i] = sep }
    IN  IF at = {} THEN <<str>>
        ELSE LET i == CHOOSE j \in at : \A m \in at : j <= m
             IN  <<SubSeq(str, 1, i - 1), SubSeq(str, i + 1, Len(str))>>

\* what strconv.Quote writes for the characters of str: a backslash before a
\* double quote and before a backslash, \n for a newline, and a printable
\* character as it is
RECURSIVE Escaped(_)
Escaped(str) ==
    IF str = <<>> THEN <<>>
    ELSE LET c == Head(str)
         IN  (IF c = DQ THEN <<BS, DQ>>
              ELSE IF c = BS THEN <<BS, BS>>
              ELSE IF c = LF THEN <<BS, "n">>
              ELSE <<c>>) \o Escaped(Tail(str))

\* %q with nothing escaped
QuoteNoEscape(str) == <<DQ>> \o str \o <<DQ>>

\* the verb %q of fmt.Sprintf for a string (identification.go:10), which is
\* strconv.Quote
Quote(str) == <<DQ>> \o Escaped(str) \o <<DQ>>

NoString == [ok |-> FALSE, val |-> <<>>]

\* the loop of strconv.Unquote over what is between the double quotes, with
\* strconv.UnquoteChar: a double quote that is not escaped is an error, and
\* so is a backslash at the end or before a character that is no escape.
\* Of the escapes, \n, \\ and \" are decoded, and \a, \t and \r to the
\* characters named so here; the escapes with digits (\x, \u, \U, octal),
\* which Quote writes for none of the names, are not.
RECURSIVE UnquoteChars(_)
UnquoteChars(str) ==
    IF str = <<>> THEN [ok |-> TRUE, val |-> <<>>]
    ELSE IF Head(str) = DQ THEN NoString
    ELSE IF Head(str) # BS
    THEN LET rest == UnquoteChars(Tail(str))
         IN  IF rest.ok THEN [ok |-> TRUE, val |-> <<Head(str)>> \o rest.val]
             ELSE NoString
    ELSE IF Len(str) <= 1 THEN NoString
    ELSE LET c == str[2]
             rest == UnquoteChars(SubSeq(str, 3, Len(str)))
             decoded == CASE c = "n" -> <<LF>>
                          [] c = BS -> <<BS>>
                          [] c = DQ -> <<DQ>>
                          [] c = "a" -> <<"BEL">>
                          [] c = "t" -> <<"TAB">>
                          [] c = "r" -> <<"CR">>
                          [] OTHER -> <<>>
         IN  IF decoded = <<>> \/ ~rest.ok THEN NoString
             ELSE [ok |-> TRUE, val |-> decoded \o rest.val]

\* strconv.Unquote (identification.go:24) of a string that holds no single
\* quote and no back quote: it is at least two characters long, begins and
\* ends with a double quote, and holds no newline between them
Unquote(str) ==
    IF Len(str) < 2 THEN NoString
    ELSE IF str[1] # str[Len(str)] THEN NoString
    ELSE IF str[1] # DQ THEN NoString
    ELSE LET inner == SubSeq(str, 2, Len(str) - 1)
         IN  IF \E i \in 1..Len(inner) : inner[i] = LF THEN NoString
             ELSE UnquoteChars(inner)

\* identification.go:9-11, 31-33, 48-50
E2ETestLocator(testName) == E2ETestPrefix \o Quote(testName)
NodeLocator(testName) == NodePrefix \o testName
OperatorLocator(testName) == OperatorPrefix \o testName

NotFound == [name |-> <<>>, ok |-> FALSE]

\* E2ETestFromLocator, identification.go:18-29
E2ETestFromLocator(locator) ==
    IF ~HasPrefix(locator, E2ETestPrefix) THEN NotFound
    ELSE LET parts == SplitN2(locator, "/")
             unquoted == Unquote(parts[2])
         IN  IF ~unquoted.ok THEN NotFound
             ELSE [name |-> unquoted.val, ok |-> TRUE]

\* NodeFromLocator, identification.go:40-46
NodeFromLocator(locator) ==
    IF ~HasPrefix(locator, NodePrefix) THEN NotFound
    ELSE [name |-> SplitN2(TrimPrefix(locator, NodePrefix), " ")[1],
          ok |-> TRUE]

\* OperatorFromLocator, identification.go:57-63
OperatorFromLocator(locator) ==
    IF ~HasPrefix(locator, OperatorPrefix) THEN NotFound
    ELSE [name |-> SplitN2(TrimPrefix(locator, OperatorPrefix), " ")[1],
          ok |-> TRUE]

InitLoc ==
    /\ l_pc = "name"
    /\ l_kind \in Kinds
    /\ l_name \in Names
    /\ l_locator = <<>>
    /\ l_parsed = [k \in Kinds |-> NotFound]

\* Part 7 at rest, for the specifications of the other parts
IdleLoc ==
    /\ l_pc = "idle"
    /\ l_kind = "node"
    /\ l_name = <<>>
    /\ l_locator = <<>>
    /\ l_parsed = [k \in Kinds |-> NotFound]

\* the constructor of the kind is called with the name
BuildLocator ==
    /\ l_pc = "name"
    /\ l_locator' = CASE l_kind = "e2e-test" -> E2ETestLocator(l_name)
                      [] l_kind = "node" -> NodeLocator(l_name)
                      [] l_kind = "clusteroperator" -> OperatorLocator(l_name)
    /\ l_pc' = "built"
    /\ UNCHANGED <<l_kind, l_name, l_parsed>>
    /\ UNCHANGED <<endVars, harnessVars, monVars, recVars, pollVars, probeVars>>

\* each of the three parsers is called with the locator
ParseLocator ==
    /\ l_pc = "built"
    /\ l_parsed' = [k \in Kinds |->
                      CASE k = "e2e-test" -> E2ETestFromLocator(l_locator)
                        [] k = "node" -> NodeFromLocator(l_locator)
                        [] k = "clusteroperator" ->
                              OperatorFromLocator(l_locator)]
    /\ l_pc' = "parsed"
    /\ UNCHANGED <<l_kind, l_name, l_locator>>
    /\ UNCHANGED <<endVars, harnessVars, monVars, recVars, pollVars, probeVars>>

NextLoc == BuildLocator \/ ParseLocator

InitSpecEND == InitEND /\ IdleHarness /\ IdleMon /\ IdleRec /\ IdlePoll /\ IdleProbe /\ IdleLoc

SpecEND == InitSpecEND /\ [][NextEND]_vars

\* the harness: Run with NumTests registered tests
InitSpecHarness == InitHarness /\ IdleEND /\ IdleMon /\ IdleRec /\ IdlePoll /\ IdleProbe /\ IdleLoc

SpecHarness == InitSpecHarness /\ [][NextHarness]_vars

\* UpgradeTest.Test with its two samplers and its Monitor
InitSpecUpgrade == InitMon /\ IdleEND /\ IdleHarness /\ IdleRec /\ IdlePoll /\ IdleProbe /\ IdleLoc

SpecUpgrade == InitSpecUpgrade /\ [][NextUpgrade]_vars

\* the Monitor while the samplers run and a further caller reads its log,
\* whatever the polls' times
SpecMonitor == InitSpecUpgrade /\ [][NextMonitor]_vars

----------------------------------------------------------------------------
InitSpecRec == InitRec /\ IdleEND /\ IdleHarness /\ IdleMon /\ IdlePoll /\ IdleProbe /\ IdleLoc

SpecRec == InitSpecRec /\ [][NextRec]_vars

InitSpecPoll == InitPoll /\ IdleEND /\ IdleHarness /\ IdleMon /\ IdleRec /\ IdleProbe /\ IdleLoc

SpecPoll == InitSpecPoll /\ [][NextPoll]_vars

InitSpecProbe ==
    InitProbe /\ IdleEND /\ IdleHarness /\ IdleMon /\ IdleRec /\ IdlePoll
        /\ IdleLoc

SpecProbe == InitSpecProbe /\ [][NextProbe]_vars

InitSpecLoc ==
    InitLoc /\ IdleEND /\ IdleHarness /\ IdleMon /\ IdleRec /\ IdlePoll
        /\ IdleProbe

SpecLoc == InitSpecLoc /\ [][NextLoc]_vars

(***************************************************************************)
(* The claims                                                              *)
(***************************************************************************)

\* what one call of ExpectNoDisruption did
e_D == Duration(e_events, 1 * Second)
e_failed == e_panic = "FailurePanic"
e_added == SubSeq(e_summaries, Len(e_before) + 1, Len(e_summaries))
e_flaked == \E i \in 1..Len(e_added) : e_added[i].kind = "Flake"
e_noop == e_summaries = e_before /\ e_panic = "none"
e_over == e_D * Percent > e_tolerate * e_total

\* C1 as the specification states it: one call of ExpectNoDisruption fails
\* the test iff D/total > tolerate, records a flake without failing iff
\* 0 < D and D/total <= tolerate, and is a no-op iff D = 0; fail and flake
\* never both happen.
C1_AsStated ==
    e_pc = "done" =>
        /\ e_failed <=> e_over
        /\ (e_flaked /\ ~e_failed) <=> (0 < e_D /\ ~e_over)
        /\ e_noop <=> e_D = 0
        /\ ~(e_failed /\ e_flaked)

\* C1, amended: one call of ExpectNoDisruption fails the test iff
\* D/total > tolerate, records exactly one flake without failing iff 0 < D
\* and D/total <= tolerate, and neither fails nor flakes iff D = 0; fail and
\* flake never both happen.  In all three cases the call first records the
\* intervals as one AdditionalEvents summary, so it is never a no-op.
C1_Outcomes ==
    e_pc = "done" =>
        /\ e_failed <=> e_over
        /\ (e_flaked /\ ~e_failed) <=> (0 < e_D /\ ~e_over)
        /\ (~e_flaked /\ ~e_failed) <=> e_D = 0
        /\ ~(e_failed /\ e_flaked)
        /\ e_panic \in {"none", "FailurePanic"}
        /\ Len(e_added) = (IF e_flaked THEN 2 ELSE 1)
        /\ e_added[1] = [kind |-> "AdditionalEvents", events |-> e_events]
        /\ ~e_noop

\* C1, its case: 5 s of disruption in 600 s at a tolerance of 0.02 has been
\* evaluated: a flake, and the test passes
C1_FlakeWitness ==
    /\ e_pc = "done"
    /\ e_tolerate = 2
    /\ e_total = 600 * Second
    /\ e_D = 5 * Second
    /\ e_flaked
    /\ ~e_failed

\* a case whose failures are all flake-typed: at least one failure, no error,
\* not skipped
AllFlakeTyped(tc) ==
    /\ Len(tc.failures) >= 1
    /\ tc.errors = <<>>
    /\ ~tc.skipped
    /\ \A i \in 1..Len(tc.failures) : tc.failures[i].type = "Flake"

Clean(tc) == tc.failures = <<>> /\ tc.errors = <<>> /\ ~tc.skipped

\* C2: the step of suite finalization in runChaosmonkey keeps every entry in
\* its place with its failures retyped from 'Flake' to 'Failure' and nothing
\* else changed; for every entry whose failures were all flake-typed there
\* are afterwards exactly two entries of its name, the second one appended
\* and clean; nothing is appended for any other entry, and nothing for an
\* appended entry.
C2_SuiteFinalization ==
    [][ (h_main = "stop" /\ h_main' = "end") =>
          LET n     == Len(cases)
              m     == Len(cases')
              flaky == { j \in 1..n : AllFlakeTyped(cases[j]) }
          IN  /\ m = n + Cardinality(flaky)
              /\ \A j \in 1..n :
                    /\ cases'[j].name = cases[j].name
                    /\ cases'[j].classname = cases[j].classname
                    /\ cases'[j].errors = cases[j].errors
                    /\ cases'[j].skipped = cases[j].skipped
                    /\ Len(cases'[j].failures) = Len(cases[j].failures)
                    /\ \A i \in 1..Len(cases[j].failures) :
                          cases'[j].failures[i].type =
                             IF cases[j].failures[i].type = "Flake"
                             THEN "Failure"
                             ELSE cases[j].failures[i].type
              /\ \A j \in flaky :
                    /\ Cardinality({ i \in 1..m :
                                       cases'[i].name = cases[j].name }) = 2
                    /\ \E i \in (n + 1)..m :
                          cases'[i].name = cases[j].name /\ Clean(cases'[i])
              /\ \A i \in (n + 1)..m :
                    \E j \in flaky : cases'[i].name = cases[j].name
      ]_vars

\* C2, its case: the suite has been finalized, the case of test 1 was a
\* flake and now is a 'Failure' followed by one clean entry of its name, and
\* test 2, which failed, has one entry
C2_FlakeWitness ==
    /\ h_main = "end"
    /\ recovered[1] = "none"
    /\ hasFrameworkFlake(TestSummaries[1])
    /\ cases[2].failures = <<[type |-> "Failure"]>>
    /\ raised[2] = "FailurePanic"
    /\ Len(cases) = NumTests + 2
    /\ cases[NumTests + 2].name = CaseName(1)
    /\ Clean(cases[NumTests + 2])

\* finalizeTest has run for test k
Finalized(k) ==
    IF k = 0 THEN h_main \in {"stop", "end"} ELSE h_pc[k] = "done"

\* test k was skipped by its Skip method (disruption.go:181-185)
SkippedBySkip(k) == k \in Tests /\ trace[k] = <<"Ready", "finalizeTest">>

\* the case of test k holds exactly the entry that its body's end p asks for
Converted(k, p) ==
    LET tc == cases[k + 1]
    IN  CASE p = "FailurePanic" ->
               /\ tc.failures = <<[type |-> "Failure"]>>
               /\ tc.errors = <<>>
               /\ ~tc.skipped
          [] p = "SkipPanic" ->
               /\ tc.skipped
               /\ tc.failures = <<>>
               /\ tc.errors = <<>>
          [] p = "Other" ->
               /\ tc.errors = <<[type |-> "Panic"]>>
               /\ tc.failures = <<>>
               /\ ~tc.skipped
          [] OTHER ->
               /\ tc.errors = <<>>
               /\ tc.skipped = SkippedBySkip(k)
               /\ tc.failures =
                     IF hasFrameworkFlake(TestSummaries[k])
                     THEN <<[type |-> "Flake"]>>
                     ELSE <<>>

\* C4 as the specification states it: once finalizeTest has run for a test
\* (the upgrade function's or a registered one), and until the suite is
\* finalized, the test's case holds exactly one kind of entry for the panic
\* its body raised: a single 'Failure' failure for a failure panic, Skipped
\* for a skip panic, a single 'Panic' error for any other panic; without a
\* panic it holds nothing, or one 'Flake' failure if a flake was recorded.
C4_AsStated ==
    \A k \in AllTests :
        (Finalized(k) /\ h_main # "end") => Converted(k, raised[k])

\* C10: a panic in the Setup or Test of a registered test is recorded on
\* that test's own case; as long as another test, or the upgrade function,
\* has not itself panicked, its case holds no error and no failure other
\* than its own flake, and is skipped only by its own Skip; and nothing
\* stops: until the suite is finalized some step can be taken, and the
\* disruption runs and the suite is finalized only after every registered
\* test that has begun its Test is let run to its end.
C10_PanicIsolated ==
    /\ \A k \in Tests :
          (h_pc[k] = "done" /\ raised[k] # "none" /\ h_main # "end")
              => Converted(k, raised[k])
    /\ \A j \in AllTests :
          (raised[j] = "none" /\ h_main # "end") =>
              /\ cases[j + 1].errors = <<>>
              /\ cases[j + 1].skipped = SkippedBySkip(j)
              /\ \A i \in 1..Len(cases[j + 1].failures) :
                    cases[j + 1].failures[i].type = "Flake"
              /\ Len(cases[j + 1].failures) <= 1
    /\ h_main # "end" =>
          ENABLED (\/ DoDisruption
                   \/ SuiteFinalize
                   \/ \E k \in Tests : AdapterSetup(k)
                   \/ \E k \in Tests : TestEnd(k)
                   \/ FnEnd)
    /\ h_main = "end" => \A k \in Tests : h_pc[k] = "done"

\* C10, its case: the Setup of test 1 has panicked, test 2 and the upgrade
\* function have run to their ends without a panic, the suite is finalized,
\* and the cases of test 2 and of the upgrade function are clean
C10_SetupPanicWitness ==
    /\ h_main = "end"
    /\ trace[1] = <<"Setup", "Ready", "finalizeTest">>
    /\ raised[1] = "Other"
    /\ cases[2].errors = <<[type |-> "Panic"]>>
    /\ trace[2] = <<"Setup", "Ready", "Test", "Teardown", "finalizeTest">>
    /\ raised[2] = "none"
    /\ raised[0] = "none"
    /\ Clean(cases[1])
    /\ Clean(cases[3])

\* the entries of l under locator loc with message msg
Count(l, loc, msg) ==
    Cardinality({ i \in 1..Len(l) : l[i].locator = loc /\ l[i].message = msg })

\* C3: each sampler's polls have returned exactly one 'began' condition per
\* Up->Down transition and one 'ended' condition per Down->Up transition and
\* a nil condition on every poll that is no transition; the log holds as
\* many under the sampler's locator, every 'began' at level Error and every
\* 'ended' at level Info.
C3_OnePerTransition ==
    /\ \A s \in Samplers :
          /\ polls[s].began = polls[s].upDown
          /\ polls[s].ended = polls[s].downUp
          /\ polls[s].stray = 0
          /\ Count(log, LocatorOf(s), "began") = polls[s].upDown
          /\ Count(log, LocatorOf(s), "ended") = polls[s].downUp
    /\ \A i \in 1..Len(log) :
          /\ log[i].message = "began" => log[i].level = "Error"
          /\ log[i].message = "ended" => log[i].level = "Info"

\* C3, its case: the reused-connection sampler has seen the service go down
\* and come back, with a poll that was no transition in between (the
\* WhenFailing condition marks it)
C3_DownUpWitness ==
    /\ polls["reused"].upDown = 1
    /\ polls["reused"].downUp = 1
    /\ polls["reused"].continuing = 1
    /\ Count(log, reusedConnectionLocator, "began") = 1
    /\ Count(log, reusedConnectionLocator, "ended") = 1

\* C5: in UpgradeTest.Test on a supported platform, both samplers run and
\* sampling has begun whenever Test waits for done or is past that; nothing
\* is cancelled or evaluated while it waits; during the sleep done is
\* closed and nothing is cancelled or evaluated; cancel() comes at least 15
\* seconds after done was read; ExpectNoDisruption is evaluated at most
\* once, only after done is closed and the context cancelled, with a
\* tolerance of 0.02, a total of end - start and the intervals read from
\* the Monitor after the cancellation; and a Test that returns has
\* evaluated it once.
C5_Ordering ==
    /\ (t_pc \in {"waiting", "settling", "cancelled"} \/ evaluations # <<>>)
          => /\ sampling
             /\ startTime >= 0
             /\ \A s \in Samplers : s_pc[s] # "none"
    /\ t_pc \in {"entry", "waiting"}
          => endTime = -1 /\ ~cancelled /\ evaluations = <<>>
    /\ t_pc = "settling"
          => /\ doneClosed
             /\ endTime = -1 /\ ~cancelled /\ evaluations = <<>>
             /\ now <= doneAt + 15
    /\ t_pc = "cancelled"
          => /\ doneClosed /\ cancelled
             /\ endTime >= doneAt + 15
             /\ evaluations = <<>>
    /\ Len(evaluations) <= 1
    /\ evaluations # <<>>
          => /\ doneClosed /\ cancelled
             /\ endTime >= doneAt + 15
             /\ doneAt >= startTime
             /\ evaluations[1].tolerate = 2
             /\ evaluations[1].total = endTime - startTime
             /\ evaluations[1].events = snapshots[Len(snapshots)]
             /\ t_pc \in {"returned", "panicked"}
    /\ (t_pc = "returned" /\ ~unsupportedPlatform) => Len(evaluations) = 1

\* C5, its case: done was closed a second after sampling began, Test slept,
\* cancelled, evaluated the intervals over the 16 seconds and returned
C5_EvaluatedWitness ==
    /\ t_pc = "returned"
    /\ startTime = 0
    /\ doneAt = 1
    /\ endTime = 16
    /\ Len(evaluations) = 1
    /\ evaluations[1].total = 16
    /\ Len(evaluations[1].events) >= 1

\* the conditions of l under locator loc, in order
Under(l, loc) == SelectSeq(l, LAMBDA c : c.locator = loc)

\* the conditions of l that tell a transition, in order
Transitions(l) == SelectSeq(l, LAMBDA c : c.message \in {"began", "ended"})

Alternates(l) ==
    \A i \in 1..Len(l) :
        IF i % 2 = 1
        THEN l[i].message = "began" /\ l[i].level = "Error"
        ELSE l[i].message = "ended" /\ l[i].level = "Info"

IsPrefix(a, b) == Len(a) <= Len(b) /\ SubSeq(b, 1, Len(a)) = a

\* the conditions the samplers have handed to the Monitor
Recorded ==
    polls["reused"].began + polls["reused"].ended + polls["reused"].continuing
        + polls["new"].began + polls["new"].ended + polls["new"].continuing

C8_AsStated ==
    (endTime >= 0 /\ now >= endTime + Interval) =>
        /\ \A s \in Samplers : s_pc[s] = "exited"
        /\ evaluations # <<>> => log = evaluations[1].events

\* C8, amended: from cancel() on no step appends to the log; a sampler that
\* is between two polls exits before the second is over, and one whose
\* probe is in flight exits when the probe ends, which is at most the
\* client's timeout of 10 seconds after the probe began, the probe having
\* begun before cancel(); a sampler that has exited stays so.
C8_Stops ==
    [][ endTime >= 0 =>
          /\ log' = log
          /\ \A s \in Samplers :
                /\ s_pc[s] = "exited" => s_pc'[s] = "exited"
                /\ s_pc'[s] = "idle" => now' = endTime
                /\ s_pc'[s] = "probing" =>
                      /\ now' - age'[s] <= endTime
                      /\ age'[s] <= 10
                      /\ now' <= endTime + 10
      ]_vars

\* C8, its case: a polling interval after cancel() one sampler has exited
\* and the probe of the other is still in flight
C8_InFlightWitness ==
    /\ endTime >= 0
    /\ now >= endTime + Interval
    /\ s_pc["reused"] = "probing"
    /\ s_pc["new"] = "exited"

\* C9: the intervals Test reads right after cancel() are the log from then
\* on: no step appends to it afterwards, whatever probe ends; a probe result
\* is discarded only after cancel(), and the sampler exits with it.
C9_Discarded ==
    /\ evaluations # <<>> =>
          /\ log = evaluations[1].events
          /\ log = snapshots[Len(snapshots)]
    /\ \A s \in Samplers :
          polls[s].discarded >= 1 =>
              /\ polls[s].discarded = 1
              /\ endTime >= 0
              /\ s_pc[s] = "exited"

\* C9, its case: a probe of a sample that was up was in flight at cancel(),
\* it has ended since with the timeout error, and its result was discarded
C9_DiscardedWitness ==
    /\ evaluations # <<>>
    /\ polls["reused"].discarded = 1
    /\ isUp["reused"]
    /\ now > endTime
    /\ Len(log) >= 1

\* C11 as the specification states it: when the summed duration is 0,
\* ExpectNoDisruption records no failure and no flake and leaves the
\* framework's summaries exactly as they were.
C11_AsStated ==
    (e_pc = "done" /\ e_D = 0) =>
        /\ ~e_failed
        /\ ~e_flaked
        /\ e_summaries = e_before

\* C11, amended: when the summed duration is 0, ExpectNoDisruption returns
\* without a panic and records no flake, and the framework's summaries are
\* the ones there were, unchanged and in their order, followed by one
\* AdditionalEvents summary that holds the intervals of the call.
C11_ZeroDuration ==
    (e_pc = "done" /\ e_D = 0) =>
        /\ e_panic = "none"
        /\ ~e_flaked
        /\ e_summaries =
              Append(e_before, [kind |-> "AdditionalEvents", events |-> e_events])

\* C11, its case: a call with no interval at all on a framework that held
\* one summary has returned, and the framework holds two
C11_EmptyWitness ==
    /\ e_pc = "done"
    /\ e_events = <<>>
    /\ e_before = <<[kind |-> "Flake"]>>
    /\ Len(e_summaries) = 2
    /\ e_panic = "none"

\* the intervals of the call are all shorter than one second
e_subsecond ==
    \A i \in 1..Len(e_events) : e_events[i].to - e_events[i].from < 1000

\* the lengths of the intervals of l that last a second or more, summed
RECURSIVE SumOfLong(_)
SumOfLong(l) ==
    IF l = <<>> THEN 0
    ELSE (IF Head(l).to - Head(l).from >= 1000
          THEN Head(l).to - Head(l).from ELSE 0) + SumOfLong(Tail(l))

RECURSIVE CountAdditional(_)
CountAdditional(summaries) ==
    IF summaries = <<>> THEN 0
    ELSE (IF Head(summaries).kind = "AdditionalTest" THEN 1 ELSE 0)
            + CountAdditional(Tail(summaries))

\* the AdditionalTest summaries of the tests of S that are finalized
RECURSIVE FinalizedAdditional(_)
FinalizedAdditional(S) ==
    IF S = {} THEN 0
    ELSE LET k == CHOOSE x \in S : TRUE
         IN  (IF Finalized(k) THEN CountAdditional(TestSummaries[k]) ELSE 0)
                + FinalizedAdditional(S \ {k})

\* the file of summary j of test k is there
Written(k, j) ==
    [kind |-> TestSummaries[k][j].kind, test |-> CaseName(k)] \in files

JUnitFile == [kind |-> "junit", test |-> <<"suite", 0>>]

\* C13: a report file that cannot be written changes nothing but the files.
\* Ginkgo holds a failure only when some test or the upgrade function
\* panicked; until the suite is finalized the case of a finalized test is
\* the one its recovered panic and its summaries give, and the suite holds
\* one more case for every AdditionalTest summary of a finalized test,
\* whichever files are there; and once every test is done the suite can be
\* finalized and is finalized with or without its JUnit file.
C13_WriteErrorsContained ==
    /\ ginkgoFailed = (\E k \in AllTests : raised[k] # "none")
    /\ h_main \in {"wait", "fn", "stop"} =>
          /\ \A k \in AllTests :
                Finalized(k) =>
                    cases[k + 1] =
                        finalizeCase([NewCase(CaseName(k), ClassName(k))
                                        EXCEPT !.skipped = SkippedBySkip(k)],
                                     recovered[k], TestSummaries[k])
          /\ Len(cases) = NumTests + 1 + FinalizedAdditional(AllTests)
    /\ (h_main = "stop" /\ \A k \in Tests : h_pc[k] = "done") =>
          ENABLED SuiteFinalize
    /\ h_main = "end" => \A k \in AllTests : Finalized(k)

\* C13, its case: the suite is finalized although its JUnit file could not
\* be created; the first of the two summary files of test 1 could not be
\* written, the second is there, the flake of test 1 is on its case, and
\* nothing has failed
C13_FailedWritesWitness ==
    /\ h_main = "end"
    /\ ReportDir
    /\ JUnitFile \notin files
    /\ Len(TestSummaries[1]) = 2
    /\ TestSummaries[1][2] = [kind |-> "Flake"]
    /\ ~Written(1, 1)
    /\ Written(1, 2)
    /\ cases[2].failures = <<[type |-> "Failure"]>>
    /\ Len(cases) = NumTests + 2
    /\ ~ginkgoFailed

\* the failure string the call of r_in gives its summary
r_failure ==
    IF r_in.via = "RecordJUnit"
    THEN (IF r_in.err.nil THEN "" ELSE r_in.err.msg)
    ELSE r_in.failure

RunEndsAt(l, n, i) ==
    i >= n /\ \A j \in (i - n + 1)..i : l[j]

\* the successes at the end of l
RECURSIVE TrailingRun(_)
TrailingRun(l) ==
    IF l = <<>> \/ ~l[Len(l)] THEN 0
    ELSE 1 + TrailingRun(SubSeq(l, 1, Len(l) - 1))

\* C15: the counter of TestReachableHTTPWithMinSuccessCount is the number
\* of successful polls since the last poll that was not one, and lies in
\* 0..successCount; the function returns exactly when a poll completes a
\* run of successCount successful polls in a row, which is then the last
\* poll and the first such run; and it fails exactly when the timeout is
\* over with no such run among the polls made.
C15_ConsecutiveSuccesses ==
    LET n == Len(p_results)
        runs == { i \in 1..n : RunEndsAt(p_results, successCount, i) }
    IN  p_pc # "idle" =>
          /\ consecutiveSuccessCnt \in 0..successCount
          /\ consecutiveSuccessCnt = TrailingRun(p_results)
          /\ n <= p_fit
          /\ p_pc = "returned" <=> runs # {}
          /\ p_pc = "returned" => runs = {n}
          /\ p_pc = "failed" => (n = p_fit /\ runs = {})
          /\ (n = p_fit /\ runs = {}) => ENABLED PollTimeout \/ p_pc = "failed"

\* C15, its case: two successes in a row were asked for; a success, a
\* failure and two successes later the function has returned
C15_ResetWitness ==
    /\ p_pc = "returned"
    /\ successCount = 2
    /\ p_results = <<TRUE, FALSE, TRUE, TRUE>>
    /\ consecutiveSuccessCnt = 2

\* C16 as the specification states it: a probe whose GET gave a body that
\* cannot be read, or a body without "Hello", is a failed probe: the closure
\* returns next = false, and the "began" condition when previous was true;
\* next is true only when the GET gave a body that holds "Hello".
C16_AsStated ==
    \A s \in Samplers :
        /\ q_resp[s] \in {"wrongBody", "readError"} =>
              /\ ~q_previous[s]
              /\ q_before[s] => q_condition[s].message = "began"
        /\ (q_resp[s] \in Responses /\ q_previous[s]) => q_resp[s] = "hello"

\* the places of call c in the calls tr
Places(tr, c) == { i \in 1..Len(tr) : tr[i] = c }

\* the one place of call c in tr, 0 when it is not there
Place(tr, c) == IF Places(tr, c) = {} THEN 0 ELSE CHOOSE i \in Places(tr, c) : TRUE

\* C17: sem.Ready is signalled once and never twice on every path of
\* chaosMonkeyAdapter.Test: it has not been signalled before the adapter
\* runs, it has been signalled once when the test's Test method runs and
\* once when the adapter is done, whether the test was skipped, its Setup
\* panicked, its Test returned or its Test panicked; and when Test was
\* called the signal came after Setup and before Test.
C17_ReadyOnce ==
    \A k \in Tests :
        /\ ready[k] \in {0, 1}
        /\ Cardinality(Places(trace[k], "Ready")) = ready[k]
        /\ h_pc[k] = "start" => ready[k] = 0
        /\ h_pc[k] \in {"test", "done"} => ready[k] = 1
        /\ Places(trace[k], "Test") # {} =>
              /\ Place(trace[k], "Setup") = 1
              /\ Place(trace[k], "Ready") = 2
              /\ Place(trace[k], "Test") = 3
        /\ h_main \in {"fn", "stop", "end"} => ready[k] = 1

\* C17, its case: test 1 was skipped and the Test of test 2 has panicked,
\* and each has signalled once
C17_PanicAndSkipWitness ==
    /\ h_pc[1] = "done" /\ h_pc[2] = "done"
    /\ trace[1] = <<"Ready", "finalizeTest">>
    /\ trace[2] = <<"Setup", "Ready", "Test", "Teardown", "finalizeTest">>
    /\ raised[2] = "FailurePanic"
    /\ ready[1] = 1 /\ ready[2] = 1

\* C18: Teardown is called exactly when Setup returned (the test's Test
\* method was called), and then once, after Test and before finalizeTest,
\* whether Test returned or panicked; Test is called only after Setup, and
\* at most once; a test that is skipped has none of Setup, Test and
\* Teardown called and its case is marked skipped; and finalizeTest is the
\* last call of every adapter that is done.
C18_TeardownPairing ==
    \A k \in Tests :
        LET tr == trace[k]
        IN  /\ h_pc[k] = "start" => tr = <<>>
            /\ h_pc[k] = "test" => tr = <<"Setup", "Ready", "Test">>
            /\ h_pc[k] = "done" =>
                  /\ (Places(tr, "Teardown") # {}) = (Places(tr, "Test") # {})
                  /\ Places(tr, "Test") # {} =>
                        tr = <<"Setup", "Ready", "Test", "Teardown",
                               "finalizeTest">>
                  /\ Places(tr, "Test") = {} =>
                        tr \in {<<"Ready", "finalizeTest">>,
                                <<"Setup", "Ready", "finalizeTest">>}
                  /\ tr[Len(tr)] = "finalizeTest"
                  /\ Places(tr, "Setup") = {} => cases[k + 1].skipped
                  /\ (raised[k] = "none" /\ Places(tr, "Setup") # {})
                        => ~cases[k + 1].skipped

\* C18, its case: the Setup of test 1 has panicked and no Teardown was
\* called; the Test of test 2 has panicked and its Teardown was called
\* before finalizeTest
C18_SetupPanicWitness ==
    /\ h_pc[1] = "done" /\ h_pc[2] = "done"
    /\ trace[1] = <<"Setup", "Ready", "finalizeTest">>
    /\ raised[1] = "FailurePanic"
    /\ trace[2] = <<"Setup", "Ready", "Test", "Teardown", "finalizeTest">>
    /\ raised[2] = "Other"
    /\ cases[3].errors = <<[type |-> "Panic"]>>

\* C19 as the specification states it: a test that recorded a flake and
\* then failed by a failure panic has one failure of type 'Failure' on its
\* case and no synthetic passing entry of its name is appended; and in a
\* finalized suite no failure has type 'Flake'.
C19_AsStated ==
    /\ \A k \in AllTests :
          (/\ Finalized(k)
           /\ hasFrameworkFlake(TestSummaries[k])
           /\ raised[k] = "FailurePanic") =>
              /\ cases[k + 1].failures = <<[type |-> "Failure"]>>
              /\ \A j \in (NumTests + 2)..Len(cases) :
                    cases[j].name # CaseName(k)
    /\ h_main = "end" =>
          \A j \in 1..Len(cases) :
              \A i \in 1..Len(cases[j].failures) :
                  cases[j].failures[i].type # "Flake"

\* C20 as the specification states it: when ReportDir is empty no file is
\* written.
C20_AsStated == ~ReportDir => files = {}

\* the name of the call holds no space
l_spaceless == \A i \in 1..Len(l_name) : l_name[i] # " "

\* C21: a locator built by E2ETestLocator from any name is parsed by
\* E2ETestFromLocator to that name and true; a locator built by NodeLocator
\* or OperatorLocator is parsed by the parser of its kind to true, and to
\* the name it was built from when the name holds no space; and the two
\* parsers of the other kinds return false for it.
C21_RoundTrip ==
    l_pc = "parsed" =>
        /\ l_parsed[l_kind].ok
        /\ (l_kind = "e2e-test" \/ l_spaceless) =>
              l_parsed[l_kind].name = l_name
        /\ \A k \in Kinds \ {l_kind} : l_parsed[k] = [name |-> <<>>, ok |-> FALSE]

\* C21, its case: the e2e-test locator of a name that begins like a node
\* locator and holds a double quote has been parsed by the three parsers,
\* and only the e2e-test parser has recognised it, with the name
C21_QuotedWitness ==
    /\ l_pc = "parsed"
    /\ l_kind = "e2e-test"
    /\ l_name = <<"n", "o", "d", "e", "/", "\"">>
    /\ l_locator = <<"e", "2", "e", "-", "t", "e", "s", "t", "/", "\"",
                     "n", "o", "d", "e", "/", "\\", "\"", "\"">>
    /\ l_parsed["e2e-test"] = [name |-> l_name, ok |-> TRUE]
    /\ ~l_parsed["node"].ok
    /\ ~l_parsed["clusteroperator"].ok

=============================================================================
